---- MODULE Spec2Model ----
(***************************************************************************)
(* Model of control_fingers.ino: the serial command decoder task           *)
(* (recieveDataCode, pinned to core 0) and the motion sequencer (loop, on  *)
(* the Arduino core), which share state0 (target vector) and change (dirty *)
(* flag) without synchronisation.  Every access to a shared variable is    *)
(* one atomic step, so the two lanes interleave between any two accesses.  *)
(* Characters are their ASCII codes.                                       *)
(***************************************************************************)
EXTENDS Integers, Sequences, FiniteSets, TLC

VARIABLES
  state0,    \* bool state0[6]: target vector, written by the decoder
  state1,    \* bool state1[6]: latched vector, written by loop()
  change,    \* bool change: dirty flag
  state,     \* String state: the decoder's accumulation buffer
  serial,    \* bytes still to be delivered by Serial.read()
  dpc,       \* decoder position: "read" | "write" | "finish"
  di,        \* decoder loop index i of the for loop at line 43
  lpc,       \* loop() position: "idle" | "gate" | "test" | "move" | "pace" | "resync"
  step,      \* loop() variable i of the for loop at line 111 (0 outside a cycle)
  idx,       \* loop() inner index: k (gate), j (test, move), i (resync)
  flexRead,  \* the value of state0[j] the move test at line 119 has read
  servoMin,  \* SERVOMIN: the calibrated minimum pulse value (left to the user at line 4)
  servoMax,  \* SERVOMAX: the calibrated maximum pulse value (left to the user at line 5)
  \* ---- history variables (observers; no action's guard reads them) ----
  lines,     \* number of command lines fully decoded
  lastLine,  \* buffer contents at the most recent terminator
  cmd,       \* actuator commands issued in the current motion step, per finger
  pwm,       \* pulse values handed to pwm.setPWM in the current motion step, per finger
  armed,     \* whether the sensor history (anyHigh, gatedF, gatedFirst) is kept in this run
  watch,     \* which further history is kept in this run: "hall" (hallRead),
             \* "prev" (prevCmd) or "none"
  hallRead,  \* <<k, hall[k][1]>> of the gate evaluation just made (<<>>: none)
  prevCmd,   \* the commands issued in the previous motion step of this cycle
  anyHigh,   \* some sensor reading exceeded its threshold in the current cycle
  gatedF,    \* a monitored finger whose reading exceeded its threshold in this cycle (-1: none)
  gatedFirst,\* the monitored finger's reading exceeded at the first motion step
  cyc0,      \* target vector as it was when the current cycle started
  ref1,      \* latched vector the cycle would have if the target stayed cyc0
  cycLines,  \* value of lines when the current cycle started
  done,      \* largest cycLines of a completed cycle
  repeat     \* the line now being decoded, or last decoded, repeats the one before it
             \* and its terminator was read after a cycle of that one had completed

vars == <<state0, state1, change, state, serial, dpc, di, lpc, step, idx, flexRead,
          servoMin, servoMax, lines, lastLine, cmd, pwm, armed, watch, hallRead, prevCmd,
          anyHigh, gatedF, gatedFirst, cyc0, ref1, cycLines, done, repeat>>

decVars == <<state, serial, dpc, di, lines, lastLine, repeat>>
loopVars == <<state1, lpc, step, idx, flexRead, servoMin, servoMax, cmd, pwm, armed, watch,
              hallRead, prevCmd, anyHigh, gatedF, gatedFirst, cyc0, ref1, cycLines, done>>

----------------------------------------------------------------------------
\* Bounds of the model
MaxLen == 6        \* longest command line (characters before the terminator)
MaxLines == 2      \* most command lines in one serial stream

----------------------------------------------------------------------------
\* Program constants

NumFingers == 6
NumHall == 5
FirstStep == 5
StepLimit == 135
StepInc == 5

wrist == 0
thumb == 4
index == 1
middle == 2
ring == 3
pinky == 5

Fingers == 0 .. (NumFingers - 1)

NL == 10                       \* '\n'
Digits == 48 .. 57             \* '0' .. '9'

\* hall[k][2]: the threshold of sensor k
HallThreshold(k) == <<2200, 2400, 2300, 2200, 2300>>[k + 1]

\* analogRead results tried for sensor k: the ends of the 12-bit range and the
\* two values around the threshold
Readings(k) == {0, HallThreshold(k), HallThreshold(k) + 1, 4095}

AllFalse == [f \in Fingers |-> FALSE]
NoCmd == [f \in Fingers |-> "none"]
NoPwm == [f \in Fingers |-> 0]

----------------------------------------------------------------------------
\* String helpers (Arduino String)

Min(a, b) == IF a < b THEN a ELSE b

\* String::substring(left, right) for left <= right: empty when left is past
\* the end, right clipped to the length.  Indices are 0-based.
Substring(s, left, right) ==
  IF left >= Len(s) THEN <<>>
  ELSE SubSeq(s, left + 1, Min(right, Len(s)))

\* mutant: the character code is used instead of the parsed number (s[0] - '0')
ToIntCode(s) == IF s = <<>> THEN 0 ELSE s[1] - 48

\* String::toInt() = atol(buffer) on a string of at most one character: the
\* digit's value, 0 for anything else and for the empty string.
ToInt(s) ==
  IF s = <<>> THEN 0
  ELSE IF s[1] \in Digits THEN s[1] - 48 ELSE 0

\* int -> bool conversion of the assignment at line 44
ToBool(n) == n # 0

\* mutant: the character is compared with '1' instead of being parsed as a number
DecodeAtEqOne(s, i) == Substring(s, i, i + 1) = <<49>>

\* mutant: an index past the end of the buffer is clamped to its last character
DecodeAtClamp(s, i) ==
  IF s = <<>> THEN FALSE
  ELSE ToBool(ToInt(Substring(s, Min(i, Len(s) - 1), Min(i, Len(s) - 1) + 1)))

\* the value written to state0[i] at line 44
DecodeAt(s, i) == ToBool(ToInt(Substring(s, i, i + 1)))

----------------------------------------------------------------------------
\* Actuator mapper (degToPwm, moveFinger)

\* C integer division, which truncates toward zero
TruncDiv(a, b) ==
  IF (a >= 0) = (b > 0) \/ a = 0
    THEN (IF a >= 0 THEN a ELSE -a) \div (IF b >= 0 THEN b ELSE -b)
    ELSE -((IF a >= 0 THEN a ELSE -a) \div (IF b >= 0 THEN b ELSE -b))

\* Arduino map(x, in_min, in_max, out_min, out_max)
Map(x, inMin, inMax, outMin, outMax) ==
  TruncDiv((x - inMin) * (outMax - outMin), inMax - inMin) + outMin

\* int degToPwm(int degree)
degToPwm(degree) == Map(degree, 0, 320, servoMin, servoMax)

\* mutant: the thumb's extend base is the 95-degree one
degOf95 == degToPwm(95)

\* the globals of lines 31-34
deg == degToPwm(75)
deg1 == degToPwm(95)
deg2 == degToPwm(85)
startDeg == degToPwm(180)

\* mutant: the fraction is truncated (int iPwm = fPwm)
RoundTruncated(n, d) ==
  IF n >= 0 THEN n \div d
  ELSE -((-n) \div d)

\* Arduino round() of the fraction n / d (d > 0): the nearest integer, a tie
\* going away from zero
Round(n, d) ==
  IF n >= 0 THEN (2 * n + d) \div (2 * d)
  ELSE -((d - 2 * n) \div (2 * d))

\* mutant: the ring/pinky family takes the ramps of the default family
moveFingerOneFamily(fingerId, flex, iteration) ==
  IF flex
    THEN IF fingerId = thumb
           THEN Round(servoMin * 130 + 103 * iteration, 130)
           ELSE servoMin + iteration
    ELSE IF fingerId = thumb
           THEN Round(deg * 130 - 103 * iteration, 130)
           ELSE deg1 - iteration

\* the third argument of pwm.setPWM in moveFinger.  The float expression
\* (float(103)*float(iteration))/float(130) is kept as the exact fraction
\* 103*iteration/130: a tie is exact in float, and any other step's value is at
\* least 1/26 away from a tie.
moveFinger(fingerId, flex, iteration) ==
  IF fingerId # ring /\ fingerId # pinky
    THEN IF flex
           THEN IF fingerId = thumb
                  THEN Round(servoMin * 130 + 103 * iteration, 130)
                  ELSE servoMin + iteration
           ELSE IF fingerId = thumb
                  THEN Round(deg * 130 - 103 * iteration, 130)
                  ELSE deg1 - iteration
    ELSE IF flex
           THEN startDeg - iteration
           ELSE deg2 + iteration

----------------------------------------------------------------------------
\* Command decoder task (recieveDataCode)

\* sData = Serial.read(); either the terminator starts the decode loop or the
\* byte is appended to the buffer.
DecRead ==
  /\ dpc = "read"
  /\ serial # <<>>
  /\ LET c == Head(serial) IN
       /\ serial' = Tail(serial)
       /\ IF c = NL
            THEN /\ dpc' = "write"
                 /\ di' = 0
                 /\ lastLine' = state
                 /\ repeat' = (lines >= 1 /\ state = lastLine /\ done = lines)
                 /\ UNCHANGED state
            ELSE /\ state' = Append(state, c)
                 /\ UNCHANGED <<dpc, di, lastLine, repeat>>
  /\ UNCHANGED <<state0, change, lines>>
  /\ UNCHANGED loopVars

\* state0[i] = state.substring(i, i+1).toInt();  one target entry per step
DecWrite ==
  /\ dpc = "write"
  /\ di < NumFingers
  /\ state0' = [state0 EXCEPT ![di] = DecodeAt(state, di)]
  /\ di' = di + 1
  /\ dpc' = IF di + 1 = NumFingers THEN "finish" ELSE "write"
  /\ UNCHANGED <<change, state, serial, lines, lastLine, repeat>>
  /\ UNCHANGED loopVars

\* state = ""; change = true; break;
DecFinish ==
  /\ dpc = "finish"
  /\ state' = <<>>
  /\ change' = TRUE
  /\ dpc' = "read"
  /\ di' = 0
  /\ lines' = lines + 1
  /\ UNCHANGED <<state0, serial, lastLine, repeat>>
  /\ UNCHANGED loopVars

Decoder == DecRead \/ DecWrite \/ DecFinish

----------------------------------------------------------------------------
\* Motion sequencer (loop)

\* mutant: the latch is indexed by the sensor number k instead of the finger id k+1
GateLatchAtK(s1, s0, k, r) ==
  IF r > HallThreshold(k) THEN [s1 EXCEPT ![k] = s0[k]] ELSE s1

\* mutant: a reading equal to the threshold latches too
GateLatchAtOrAbove(s1, s0, k, r) ==
  IF r >= HallThreshold(k) THEN [s1 EXCEPT ![k + 1] = s0[k + 1]] ELSE s1

\* the sensor gate's assignment at lines 114-116
GateLatch(s1, s0, k, r) ==
  IF r > HallThreshold(k) THEN [s1 EXCEPT ![k + 1] = s0[k + 1]] ELSE s1

\* the move test at line 119
NeedsMove(s0, s1, j) == s0[j] # s1[j]

\* mutant: the direction is inverted (the latched value is handed over)
DirectionInverted(flex) == IF flex THEN "extend" ELSE "flex"

\* the direction handed to moveFinger at line 120
Direction(flex) == IF flex THEN "flex" ELSE "extend"

\* mutant: the step value advances by 10
NextStepByTen(i) == i + 10

\* the for loop's increment and test at line 111
NextStep(i) == i + StepInc
InCycle(i) == i < StepLimit

\* mutant: the resync starts at finger 1, like the gate's k+1
ResyncAtFromOne(s1, s0, i) == IF i = 0 THEN s1 ELSE [s1 EXCEPT ![i] = s0[i]]

\* mutant: the resync copies the latch onto itself
ResyncAtSelf(s1, s0, i) == [s1 EXCEPT ![i] = s1[i]]

\* the resync assignment at line 127
ResyncAt(s1, s0, i) == [s1 EXCEPT ![i] = s0[i]]

\* if(change): start a cycle, or fall through to delay(100)
LoopCheck ==
  /\ lpc = "idle"
  /\ change
  /\ lpc' = "gate"
  /\ step' = FirstStep
  /\ idx' = 0
  /\ cyc0' = state0
  /\ ref1' = state1
  /\ cycLines' = lines
  /\ UNCHANGED <<state1, flexRead, cmd, pwm, armed, hallRead, prevCmd, anyHigh, gatedF, gatedFirst, done>>
  /\ UNCHANGED <<servoMin, servoMax, watch>>
  /\ UNCHANGED <<state0, change>>
  /\ UNCHANGED decVars

\* one sensor of the gate loop at lines 112-117
Gate ==
  /\ lpc = "gate"
  /\ \E r \in Readings(idx) :
       LET high == r > HallThreshold(idx) IN
       /\ state1' = GateLatch(state1, state0, idx, r)
       /\ ref1' = GateLatch(ref1, cyc0, idx, r)
       /\ anyHigh' = (anyHigh \/ (armed /\ high))
       /\ hallRead' = IF watch = "hall" THEN <<idx, r>> ELSE <<>>
       /\ \/ UNCHANGED <<gatedF, gatedFirst>>
          \/ /\ armed
             /\ high
             /\ gatedF = -1
             /\ gatedF' = idx + 1
             /\ gatedFirst' = (step = FirstStep)
  /\ IF idx + 1 = NumHall
       THEN lpc' = "test" /\ idx' = 0
       ELSE lpc' = "gate" /\ idx' = idx + 1
  /\ UNCHANGED <<step, flexRead, cmd, pwm, armed, prevCmd, cyc0, cycLines, done>>
  /\ UNCHANGED <<servoMin, servoMax, watch>>
  /\ UNCHANGED <<state0, change>>
  /\ UNCHANGED decVars

\* if(state0[j] != state1[j]) for one finger
Test ==
  /\ lpc = "test"
  /\ idx < NumFingers
  /\ IF NeedsMove(state0, state1, idx)
       THEN lpc' = "move" /\ idx' = idx /\ flexRead' = state0[idx]
       ELSE /\ idx' = idx + 1
            /\ lpc' = IF idx + 1 = NumFingers THEN "pace" ELSE "test"
            /\ UNCHANGED flexRead
  /\ hallRead' = <<>>
  /\ UNCHANGED <<state1, step, cmd, pwm, armed, prevCmd, anyHigh, gatedF, gatedFirst, cyc0, ref1, cycLines, done>>
  /\ UNCHANGED <<servoMin, servoMax, watch>>
  /\ UNCHANGED <<state0, change>>
  /\ UNCHANGED decVars

\* mutant: the finger index is not advanced after a move
MoveNoAdvance ==
  /\ lpc = "move"
  /\ \E arg \in {flexRead, state0[idx]} :
       /\ cmd' = [cmd EXCEPT ![idx] = Direction(arg)]
       /\ pwm' = [pwm EXCEPT ![idx] = moveFinger(idx, arg, step)]
  /\ flexRead' = FALSE
  /\ idx' = idx
  /\ lpc' = "test"
  /\ UNCHANGED <<state1, step, armed, hallRead, prevCmd, anyHigh, gatedF, gatedFirst, cyc0, ref1, cycLines, done>>
  /\ UNCHANGED <<servoMin, servoMax, watch>>
  /\ UNCHANGED <<state0, change>>
  /\ UNCHANGED decVars

\* moveFinger(j, state0[j], i): state0 is not volatile, so the argument is
\* either the value the move test has read or state0[j] read again
Move ==
  /\ lpc = "move"
  /\ \E arg \in {flexRead, state0[idx]} :
       /\ cmd' = [cmd EXCEPT ![idx] = Direction(arg)]
       /\ pwm' = [pwm EXCEPT ![idx] = moveFinger(idx, arg, step)]
  /\ flexRead' = FALSE
  /\ idx' = idx + 1
  /\ lpc' = IF idx + 1 = NumFingers THEN "pace" ELSE "test"
  /\ UNCHANGED <<state1, step, armed, hallRead, prevCmd, anyHigh, gatedF, gatedFirst, cyc0, ref1, cycLines, done>>
  /\ UNCHANGED <<servoMin, servoMax, watch>>
  /\ UNCHANGED <<state0, change>>
  /\ UNCHANGED decVars

\* delay(17); i += 5; and the loop test i < 135
Pace ==
  /\ lpc = "pace"
  /\ cmd' = NoCmd
  /\ pwm' = NoPwm
  /\ idx' = 0
  /\ IF InCycle(NextStep(step))
       THEN /\ lpc' = "gate" /\ step' = NextStep(step)
            /\ prevCmd' = IF watch = "prev" THEN cmd ELSE NoCmd
       ELSE /\ lpc' = "resync" /\ step' = 0
            /\ prevCmd' = NoCmd
  /\ UNCHANGED <<state1, flexRead, armed, hallRead, anyHigh, gatedF, gatedFirst, cyc0, ref1, cycLines, done>>
  /\ UNCHANGED <<servoMin, servoMax, watch>>
  /\ UNCHANGED <<state0, change>>
  /\ UNCHANGED decVars

\* state1[i] = state0[i] for one finger; after the last one, delay(100)
Resync ==
  /\ lpc = "resync"
  /\ state1' = ResyncAt(state1, state0, idx)
  /\ IF idx + 1 = NumFingers
       THEN /\ lpc' = "idle"
            /\ idx' = 0
            /\ done' = IF cycLines > done THEN cycLines ELSE done
            /\ anyHigh' = FALSE
            /\ gatedF' = -1
            /\ gatedFirst' = FALSE
            /\ cyc0' = AllFalse
            /\ ref1' = AllFalse
            /\ cycLines' = 0
       ELSE /\ lpc' = "resync"
            /\ idx' = idx + 1
            /\ UNCHANGED <<done, anyHigh, gatedF, gatedFirst, cyc0, ref1, cycLines>>
  /\ UNCHANGED <<step, flexRead, cmd, pwm, armed, hallRead, prevCmd>>
  /\ UNCHANGED <<servoMin, servoMax, watch>>
  /\ UNCHANGED <<state0, change>>
  /\ UNCHANGED decVars

Loop == LoopCheck \/ Gate \/ Test \/ Move \/ Pace \/ Resync

----------------------------------------------------------------------------
\* Initial states and specifications

\* the state after setup(): globals as initialised at lines 10-16
InitProgram ==
  /\ state0 = AllFalse
  /\ state1 = AllFalse
  /\ change = FALSE
  /\ state = <<>>
  /\ dpc = "read"
  /\ di = 0
  /\ lpc = "idle"
  /\ step = 0
  /\ idx = 0
  /\ flexRead = FALSE
  /\ lines = 0
  /\ lastLine = <<>>
  /\ cmd = NoCmd
  /\ pwm = NoPwm
  /\ hallRead = <<>>
  /\ prevCmd = NoCmd
  /\ anyHigh = FALSE
  /\ gatedF = -1
  /\ gatedFirst = FALSE
  /\ cyc0 = AllFalse
  /\ ref1 = AllFalse
  /\ cycLines = 0
  /\ done = 0
  /\ repeat = FALSE

\* calibrations tried for SERVOMIN and SERVOMAX (12-bit pulse counts)
Calibrations == { <<150, 600>>, <<102, 512>>, <<205, 410>> }

\* the calibration of the runs that do not vary it
Calibrated == servoMin = 150 /\ servoMax = 600

\* "100000" and "010000"
CmdLines == { <<49, 48, 48, 48, 48, 48>>, <<48, 49, 48, 48, 48, 48>> }

RECURSIVE Streams(_)
Streams(n) ==
  IF n = 0 THEN { <<>> }
  ELSE { l \o <<NL>> \o s : l \in CmdLines, s \in Streams(n - 1) }

\* serial streams of 1 .. MaxLines command lines
Inputs == UNION { Streams(n) : n \in 1 .. MaxLines }

\* both lanes, no sensor history
Init == InitProgram /\ Calibrated /\ watch = "none" /\ serial \in Inputs /\ armed = FALSE

Next == Decoder \/ Loop

Spec == Init /\ [][Next]_vars

\* both lanes, sensor history kept
InitGate == InitProgram /\ Calibrated /\ watch = "none" /\ serial \in Inputs /\ armed = TRUE

SpecGate == InitGate /\ [][Next]_vars

\* both lanes, sensor history kept, the single command line "010000"
InitIndexLine ==
  InitProgram /\ Calibrated /\ watch = "none" /\ serial = <<48, 49, 48, 48, 48, 48, NL>> /\ armed = TRUE

SpecIndexLine == InitIndexLine /\ [][Next]_vars

\* both lanes, sensor history kept, the single command line "100000"
InitWristLine ==
  InitProgram /\ Calibrated /\ watch = "none" /\ serial = <<49, 48, 48, 48, 48, 48, NL>> /\ armed = TRUE

SpecWristLine == InitWristLine /\ [][Next]_vars

\* both lanes on a stream of exactly two command lines, under the scheduling
\* of the two cores: each task runs on its own core and is never starved
InitTwoLines == InitProgram /\ Calibrated /\ watch = "none" /\ serial \in Streams(2) /\ armed = FALSE

FairSpec == InitTwoLines /\ [][Next]_vars /\ WF_vars(Decoder) /\ WF_vars(Loop)

\* the decoder alone on every line of at most MaxLen characters
Chars == {48, 49, 57, 97}      \* '0', '1', '9', 'a'

RECURSIVE LinesOfLen(_)
LinesOfLen(n) ==
  IF n = 0 THEN { <<>> }
  ELSE { Append(l, c) : l \in LinesOfLen(n - 1), c \in Chars }

AllLines == UNION { LinesOfLen(n) : n \in 0 .. MaxLen }

InitDecode == InitProgram /\ Calibrated /\ watch = "none" /\ armed = FALSE /\ serial \in { Append(l, NL) : l \in AllLines }

NextDecode == DecRead \/ DecWrite \/ DecFinish

SpecDecode == InitDecode /\ [][NextDecode]_vars

\* the actuator mapper alone: every finger, direction and step value of a
\* cycle, under each calibration
Steps == { i \in FirstStep .. StepLimit : InCycle(i) /\ (i - FirstStep) % StepInc = 0 }

InitMapper ==
  /\ InitProgram /\ watch = "none" /\ armed = FALSE /\ serial = <<>>
  /\ \E c \in Calibrations : servoMin = c[1] /\ servoMax = c[2]

MapperCall ==
  \E fingerId \in Fingers, fl \in BOOLEAN, iteration \in Steps :
    /\ pwm' = [NoPwm EXCEPT ![fingerId] = moveFinger(fingerId, fl, iteration)]
    /\ cmd' = [NoCmd EXCEPT ![fingerId] = Direction(fl)]
    /\ idx' = fingerId
    /\ step' = iteration
    /\ UNCHANGED <<state0, state1, change, state, serial, dpc, di, lpc, flexRead,
                   servoMin, servoMax, lines, lastLine, armed, watch, hallRead, prevCmd,
                   anyHigh, gatedF, gatedFirst, cyc0, ref1, cycLines, done, repeat>>

SpecMapper == InitMapper /\ [][MapperCall]_vars

\* both lanes, the commands of the previous motion step kept
InitPrev == InitProgram /\ Calibrated /\ watch = "prev" /\ serial \in Inputs /\ armed = FALSE

SpecPrev == InitPrev /\ [][Next]_vars

\* both lanes on a stream of exactly two command lines, the reading of each
\* gate evaluation kept
InitHall == InitProgram /\ Calibrated /\ watch = "hall" /\ serial \in Streams(2) /\ armed = FALSE

SpecHall == InitHall /\ [][Next]_vars

----------------------------------------------------------------------------
\* Properties

L100000 == <<49, 48, 48, 48, 48, 48>>
L010000 == <<48, 49, 48, 48, 48, 48>>

\* the decoder has processed a terminator and is back at Serial.read()
Decoded == dpc = "read" /\ lines >= 1

\* a line of exactly 6 digit characters
SixDigits(l) == Len(l) = 6 /\ \A k \in 1 .. 6 : l[k] \in Digits

\* finger order as the specification lists it, and as the finger ids order it
ListedOrder == <<wrist, thumb, index, middle, ring, pinky>>
IdOrder == <<wrist, index, middle, ring, thumb, pinky>>

\* C1 (as stated): after a 6-digit line is decoded, the k-th finger in the order
\* wrist, thumb, index, middle, ring, pinky is false for '0' and true for a
\* non-zero digit at position k.
C1_ListedOrder ==
  (Decoded /\ SixDigits(lastLine)) =>
     \A k \in 1 .. 6 : state0[ListedOrder[k]] = (lastLine[k] # 48)

\* C1 (amended): after a 6-digit line is decoded, the k-th finger in the order
\* of the finger ids, wrist, index, middle, ring, thumb, pinky, is false for '0'
\* and true for a non-zero digit at position k.
C1_IdOrder ==
  (Decoded /\ SixDigits(lastLine)) =>
     \A k \in 1 .. 6 : state0[IdOrder[k]] = (lastLine[k] # 48)

\* C1 witness: a decoded 6-digit line with a non-zero digit other than '1' at
\* position 2 and '0' at position 5, where the two orders disagree
C1_Witness ==
  /\ Decoded /\ SixDigits(lastLine)
  /\ lastLine[2] = 57 /\ lastLine[5] = 48
  /\ state0[index] /\ ~state0[thumb]

\* C10: a line of fewer than 6 characters decodes each position that has a
\* character from that character and every later position to false; the decoder
\* is back at reading with an empty buffer and the dirty flag set.
C10_ShortLine ==
  (Decoded /\ Len(lastLine) < 6) =>
     /\ \A k \in 1 .. Len(lastLine) :
           state0[k - 1] = (lastLine[k] \in 49 .. 57)
     /\ \A k \in (Len(lastLine) + 1) .. 6 : state0[k - 1] = FALSE
     /\ change
     /\ state = <<>>

\* C10 witness: a decoded 3-character line whose last character is a non-zero digit
C10_Witness ==
  /\ Decoded /\ Len(lastLine) = 3 /\ lastLine[3] = 49
  /\ state0[2] /\ ~state0[3] /\ ~state0[4] /\ ~state0[5] /\ change

\* the digit-wise reading of a line: position f+1 holds a non-zero digit
DigitWise(l) == [f \in Fingers |-> f + 1 <= Len(l) /\ l[f + 1] \in 49 .. 57]

\* the only line decoded so far is l, and the cycle now running is the first
\* cycle run for it
FirstCycleOf(l) ==
  /\ lines = 1 /\ dpc = "read" /\ lastLine = l
  /\ done = 0 /\ cycLines = 1

\* C2 (as stated): once a sensing finger's reading has exceeded its threshold
\* in a cycle, the finger receives no actuator command at that step or at any
\* later step of the cycle, whatever the decoder does meanwhile.
C2_NoCommandOnceGated == gatedF # -1 => cmd[gatedF] = "none"

\* C3 (as stated): when a line has been decoded during the cycle in progress,
\* the commands issued in each step are those the cycle would issue had the
\* target stayed as it was when the cycle started: the same fingers, the same
\* directions.
C3_CycleIgnoresNewLine ==
  (lpc = "pace" /\ cycLines >= 1 /\ cycLines < lines) =>
     \A f \in Fingers :
        cmd[f] = IF cyc0[f] # ref1[f] THEN Direction(cyc0[f]) ELSE "none"

\* C4 (as stated): whenever the resync completes, the latched vector equals
\* the target vector for all 6 fingers.
C4_ResyncEqualises ==
  [][(lpc = "resync" /\ lpc' = "idle") => state1' = state0']_vars

\* C5 (as stated): the dirty flag is true exactly when a decoded command is
\* pending execution, that is when a line has been decoded and no cycle started
\* after its decoding has completed yet.
C5_DirtyIffPending == change <=> (lines > done)

\* C6: when the line being decoded, or last decoded, repeats the line before
\* it, and its terminator was read after a cycle run for that line had
\* completed, no finger receives an actuator command.
C6_Idempotent == repeat => cmd = NoCmd

\* C6 witness: the end of a motion step of a cycle started after the repeated
\* line "010000" was decoded
C6_Witness ==
  /\ repeat /\ lines = 2 /\ cycLines = 2 /\ lpc = "pace"
  /\ lastLine = L010000 /\ state1 = DigitWise(L010000) /\ cmd = NoCmd

\* the second line has been decoded before any cycle completed, and no
\* further line is on the way
SecondLineMidCycle ==
  lines = 2 /\ dpc = "read" /\ serial = <<>> /\ state = <<>> /\ done = 0

\* C7: if a second line is decoded before the first line's cycle completes and
\* no further line arrives, then eventually the latched and the target vector
\* both equal the digit-wise decode of the second line, and stay so.
C7_SecondLineWins ==
  SecondLineMidCycle ~>
     [](state0 = DigitWise(lastLine) /\ state1 = DigitWise(lastLine))

\* C7 witness: the second line is fully decoded while the first line's cycle is
\* in a motion step, and it differs from the target the cycle started with
C7_Witness ==
  /\ SecondLineMidCycle /\ lpc = "test" /\ cycLines = 1
  /\ cyc0 # state0 /\ state1 # state0

\* C8 (as stated): in the first cycle for "100000" with every reading at or
\* below its threshold, each motion step ends with a flex command to the thumb
\* and no command to the other 5 fingers.
C8_ThumbDriven ==
  (FirstCycleOf(L100000) /\ lpc = "pace" /\ ~anyHigh) =>
     \A f \in Fingers : cmd[f] = IF f = thumb THEN "flex" ELSE "none"

\* C8 (amended): in the first cycle for "100000" with every reading at or
\* below its threshold, each motion step is one of the 26 steps 5, 10, ..., 130
\* and ends with a flex command to the wrist and no command to the other 5
\* fingers (thumb, index, middle, ring, pinky).
C8_WristDriven ==
  (FirstCycleOf(L100000) /\ lpc = "pace" /\ ~anyHigh) =>
     /\ step \in { 5 * n : n \in 1 .. 26 }
     /\ \A f \in Fingers : cmd[f] = IF f = wrist THEN "flex" ELSE "none"

\* C8 witness: the end of the 26th motion step (step value 130) of that cycle
C8_Witness ==
  /\ FirstCycleOf(L100000) /\ lpc = "pace" /\ ~anyHigh
  /\ step = 130 /\ cmd[wrist] = "flex" /\ serial = <<>>

\* C9: in the first cycle for "010000", with the index finger's reading above
\* its threshold at the first motion step and no other line decoded, the index
\* finger receives no actuator command.
C9_IndexNeverDriven ==
  (FirstCycleOf(L010000) /\ gatedF = index /\ gatedFirst) => cmd[index] = "none"

\* C9 witness: the end of the last motion step of that cycle
C9_Witness ==
  /\ FirstCycleOf(L010000) /\ gatedF = index /\ gatedFirst
  /\ lpc = "pace" /\ step = 130 /\ state1[index] /\ serial = <<>>

\* the line l with '0' at character position k (1-based)
ZeroAt(l, k) == [l EXCEPT ![k] = 48]

\* C11: a character of the line that is not a digit decodes its own position
\* to false, and every other position decodes as it does in the line that
\* holds '0' at that position.
C11_NonDigitIsolated ==
  Decoded =>
    \A k \in 1 .. Min(Len(lastLine), NumFingers) :
      lastLine[k] \notin Digits =>
        /\ state0[k - 1] = FALSE
        /\ \A f \in Fingers \ {k - 1} : state0[f] = DigitWise(ZeroAt(lastLine, k))[f]

\* a decoded line with a non-digit followed by a digit other than '0'
C11_Witness ==
  /\ Decoded
  /\ Len(lastLine) >= 2
  /\ lastLine[1] = 97
  /\ lastLine[2] = 49
  /\ state0[1] = TRUE

\* the loop is inside one of the motion steps of a cycle
InMotion(p) == p \in {"gate", "test", "move", "pace"}

\* the 26 step values of a cycle
StepValues == { 5 * n : n \in 1 .. 26 }

\* C12: a cycle is entered at step value 5 only from the outer loop, its step
\* value only ever advances by 5 at the end of a step, it is left only after
\* the step of value 130 and only into the resync, and the resync returns to
\* the outer loop: 26 steps 5, 10, ..., 130, whatever is sensed and decoded
\* meanwhile; and a cycle that has started does get back to the outer loop.
C12_FullCycle ==
  /\ InMotion(lpc) ~> (lpc = "idle")
  /\ [][ /\ (~InMotion(lpc) /\ InMotion(lpc')) =>
              (lpc = "idle" /\ lpc' = "gate" /\ step' = 5)
         /\ (InMotion(lpc) /\ InMotion(lpc')) =>
              IF lpc = "pace" /\ lpc' # "pace"
                THEN lpc' = "gate" /\ step' = step + 5
                ELSE step' = step
         /\ (InMotion(lpc) /\ ~InMotion(lpc')) =>
              (lpc = "pace" /\ step = 130 /\ lpc' = "resync")
         /\ (lpc = "resync" /\ lpc' # "resync") => lpc' = "idle"
         /\ InMotion(lpc') => step' \in StepValues
       ]_vars

\* the last step of a cycle during which a second line was decoded
C12_Witness ==
  /\ lpc = "pace" /\ step = 130
  /\ cycLines = 1 /\ lines = 2 /\ dpc = "read"
  /\ state0 # cyc0

\* C13: within a motion step no finger receives a second command (the finger
\* about to be commanded has none yet in this step, and a command goes to
\* that finger alone), and commands are issued by the move of a motion step
\* only: elsewhere the step's commands stay as they are or, at the end of the
\* step, are cleared.
C13_OneCommandPerStep ==
  /\ [](lpc = "move" => (step \in StepValues /\ cmd[idx] = "none"))
  /\ [][ cmd' # cmd =>
            \/ /\ lpc = "move"
               /\ cmd'[idx] # "none"
               /\ \A f \in Fingers \ {idx} : cmd'[f] = cmd[f]
            \/ lpc = "pace" /\ cmd' = NoCmd
       ]_vars

\* a motion step in which two fingers were commanded
C13_Witness ==
  /\ lpc = "pace"
  /\ cmd[wrist] # "none"
  /\ cmd[index] # "none"

\* the loop is at a point of a cycle where it reads the target vector
ReadsTarget == lpc \in {"gate", "test", "move", "resync"}

\* C14: whenever the loop is about to read the target vector, inside a step or
\* in the resync, the vector is all false or the decode of one whole line of
\* the stream.
C14_NoTornTarget ==
  ReadsTarget => state0 \in ({AllFalse} \cup { DigitWise(l) : l \in CmdLines })

\* C15: a finger commanded in a step after the first of a cycle was commanded
\* in the step before, in the same direction: the steps at which a finger is
\* commanded are an initial run 5, 10, ..., 5m of the cycle, all one direction.
C15_CommandsArePrefix ==
  (lpc = "pace" /\ step > 5) =>
    \A f \in Fingers : cmd[f] # "none" => prevCmd[f] = cmd[f]

\* C16: the move test sends a finger to the actuator mapper exactly when its
\* target entry differs from its latched entry, and the command then issued
\* carries the direction of the target value the test has read, which is not
\* the direction of the latched entry.
C16_CommandIffDiffers ==
  [][ /\ (lpc = "test" /\ <<lpc, idx>>' # <<lpc, idx>>) =>
           ((lpc' = "move") <=> (state0[idx] # state1[idx]))
      /\ (lpc = "move" /\ lpc' # "move") =>
           /\ cmd'[idx] = (IF flexRead THEN "flex" ELSE "extend")
           /\ cmd'[idx] # (IF state1[idx] THEN "flex" ELSE "extend")
           /\ step' = step
    ]_vars

\* the pulse value of a degree value: the degree's share of the calibrated
\* range, 320 degrees being the whole of it, counted from the minimum
BaseOf(d) == servoMin + (d * (servoMax - servoMin)) \div 320

\* the actuator mapper has been called for finger f in direction dir
Called(f, dir) == step \in StepValues /\ idx = f /\ cmd[f] = dir

\* C17: at every step value s, wrist, index and middle are sent min + s when
\* flexing and the 95-degree base minus s when extending; ring and pinky are
\* sent the 180-degree base minus s when flexing and the 85-degree base plus s
\* when extending.
C17_LinearRamps ==
  /\ \A f \in {wrist, index, middle} :
       /\ Called(f, "flex") => pwm[f] = servoMin + step
       /\ Called(f, "extend") => pwm[f] = BaseOf(95) - step
  /\ \A f \in {ring, pinky} :
       /\ Called(f, "flex") => pwm[f] = BaseOf(180) - step
       /\ Called(f, "extend") => pwm[f] = BaseOf(85) + step

\* the pinky extended at the last step value under the second calibration
C17_Witness ==
  /\ Called(pinky, "extend") /\ step = 130
  /\ servoMin = 102 /\ servoMax = 512
  /\ pwm[pinky] = 340

\* the distance of the thumb's pulse value from the base of its ramp: the
\* minimum when flexing, the 75-degree base when extending
ThumbOffset(dir) ==
  IF dir = "flex" THEN pwm[thumb] - servoMin ELSE BaseOf(75) - pwm[thumb]

\* n is an integer nearest to 103 * s / 130
Nearest(n, s) == 2 * (130 * n - 103 * s) \in -130 .. 130

\* 103 * s / 130 rounded to the nearest integer, a tie going up
HalfUp(s) == (2 * 103 * s + 130) \div 260

\* C18 as stated: at every step value the thumb's offset is an integer nearest
\* to 103*s/130, it is the offset the other direction has at that step value,
\* and it is 103 at step value 130.
C18_SameOffsetBothWays ==
  \A fl \in BOOLEAN :
    Called(thumb, Direction(fl)) =>
      /\ Nearest(ThumbOffset(Direction(fl)), step)
      /\ ThumbOffset(Direction(fl)) =
           (IF fl THEN BaseOf(75) - moveFinger(thumb, FALSE, step)
                  ELSE moveFinger(thumb, TRUE, step) - servoMin)
      /\ step = 130 => ThumbOffset(Direction(fl)) = 103

\* C18 amended: with both thumb ramps at non-negative pulse values, the
\* thumb's offset is 103*s/130 rounded to the nearest integer, the same for
\* both directions, except at the tie of step value 65, where flexing gives 52
\* and extending gives 51; and it is 103 at step value 130.
C18_OffsetButTie ==
  (servoMin >= 0 /\ BaseOf(75) >= 103) =>
    /\ Called(thumb, "flex") => ThumbOffset("flex") = HalfUp(step)
    /\ Called(thumb, "extend") =>
         ThumbOffset("extend") = (IF step = 65 THEN 51 ELSE HalfUp(step))
    /\ \A dir \in {"flex", "extend"} :
         Called(thumb, dir) =>
           /\ Nearest(ThumbOffset(dir), step)
           /\ step = 130 => ThumbOffset(dir) = 103

\* the thumb extended at the tie
C18_Witness ==
  /\ Called(thumb, "extend") /\ step = 65
  /\ servoMin >= 0 /\ BaseOf(75) >= 103
  /\ ThumbOffset("extend") = 51

\* C19: a gate evaluation of sensor k with a reading above the threshold sets
\* the latched entry of finger k+1 to its target entry and changes no other
\* latched entry; with a reading at or below the threshold it changes no
\* latched entry; and it never changes the wrist's latched entry, the target
\* vector or the dirty flag.
C19_GateFrame ==
  [][ (lpc = "gate" /\ <<lpc, idx>>' # <<lpc, idx>> /\ hallRead' # <<>>) =>
        /\ hallRead'[1] = idx
        /\ hallRead'[2] > HallThreshold(idx) =>
             state1' = [state1 EXCEPT ![idx + 1] = state0[idx + 1]]
        /\ hallRead'[2] <= HallThreshold(idx) => state1' = state1
        /\ state1'[wrist] = state1[wrist]
        /\ state0' = state0
        /\ change' = change
    ]_vars

\* the index finger's gate has just latched it, in the first step of a cycle
C19_Witness ==
  /\ hallRead # <<>>
  /\ hallRead[1] = 0
  /\ hallRead[2] > HallThreshold(0)
  /\ step = 5
  /\ state0[index] = TRUE
  /\ state1[index] = TRUE

\* C20 as stated: the thumb's flex values are within half a unit of the
\* minimum plus 103*s/130, and its extend values within half a unit of the
\* 95-degree base of wrist, index and middle minus 103*s/130.
C20_ThumbFrom95 ==
  /\ Called(thumb, "flex") => Nearest(pwm[thumb] - servoMin, step)
  /\ Called(thumb, "extend") => Nearest(BaseOf(95) - pwm[thumb], step)

\* C20 amended: the thumb's extend ramp descends from the 75-degree base.
C20_ThumbFrom75 ==
  /\ Called(thumb, "flex") => Nearest(pwm[thumb] - servoMin, step)
  /\ Called(thumb, "extend") => Nearest(BaseOf(75) - pwm[thumb], step)

\* the thumb extended at the first step value: 4 below the 75-degree base
C20_Witness ==
  /\ Called(thumb, "extend") /\ step = 5
  /\ pwm[thumb] = BaseOf(75) - 4
  /\ BaseOf(75) # BaseOf(95)

====
